---- MODULE Spec2Model ----
(***************************************************************************)
(* A model of the Jira issue pipeline (src/utils/jira_pipeline.py) and of  *)
(* the Slack assistant's request loop (src/slack_bot.py).                  *)
(*                                                                         *)
(* Python values are tagged records, Python strings are sequences of one-  *)
(* character strings, and a function that can raise returns an outcome     *)
(* record (Return / Raise), so that a fault is a value the checks can see. *)
(***************************************************************************)
EXTENDS Integers, Sequences, FiniteSets, TLC

VARIABLES
    cleanArg,    \* clean_text: its argument, and whether BeautifulSoup raises
    cleanRet,    \* clean_text: its outcome, NotCalled before the call
    normArg,     \* normalize_issues: the list of raw issues it is given
    normRet,     \* normalize_issues: its outcome, NotCalled before the call
    fs,          \* the file system: what each file name holds
    saveArg,     \* save_to_jsonl: data, filename, and what the target held
    saveRet,     \* save_to_jsonl: its outcome, NotCalled before the call
    ioLog,       \* the files the last call opened and wrote, in order
    jira_client, \* the global of jira_pipeline.py: "None" or "Jira"
    startup,     \* the lifespan's initialize_jira_client: its outcome
    call,        \* fetch_jira_tokens: the request and what each step did
    response,    \* fetch_jira_tokens: what the caller gets
    pc,          \* slack_bot.py: where the program is
    slackLog     \* slack_bot.py: the calls to Slack and to the agent, in order

vars == <<cleanArg, cleanRet, normArg, normRet, fs, saveArg, saveRet, ioLog,
          jira_client, startup, call, response, pc, slackLog>>

(***************************************************************************)
(* Bounds                                                                  *)
(***************************************************************************)
\* Longest text, counted in pieces of TextPieces, that clean_text is given.
MaxPieces == 3
\* Longest list of raw issues that normalize_issues is given.
MaxIssues == 2
\* Longest list of records that save_to_jsonl is given.
MaxRecords == 2
\* Most requests the Slack assistant handles in one run.
MaxRequests == 3

(***************************************************************************)
(* Python values                                                           *)
(***************************************************************************)
None == [t |-> "none", s |-> <<>>, items |-> <<>>]
Str(chars) == [t |-> "str", s |-> chars, items |-> <<>>]
\* A dict is the sequence of its items in insertion order; keys are unique.
Dict(items) == [t |-> "dict", s |-> <<>>, items |-> items]
Item(k, v) == [k |-> k, v |-> v]

\* Python truthiness: None, "" and {} are false.
Truthy(v) ==
    CASE v.t = "none" -> FALSE
      [] v.t = "str"  -> Len(v.s) > 0
      [] v.t = "dict" -> Len(v.items) > 0
      [] OTHER        -> TRUE

\* The outcome of a call.
Return(v) == [kind |-> "return", val |-> v, exc |-> ""]
Raise(e) == [kind |-> "raise", val |-> None, exc |-> e]
NotCalled == [kind |-> "not_called", val |-> None, exc |-> ""]

(***************************************************************************)
(* Characters                                                              *)
(***************************************************************************)
LT == "<"
GT == ">"
SLASH == "/"
AT == "@"
DOT == "."
SPACE == " "
NEWLINE == "\n"
QUOTE == "\""
BACKSLASH == "\\"

\* \s of Python's re
IsSpace(c) == c \in {SPACE, NEWLINE}
\* \w of Python's re
IsWord(c) == c \in {"a", "b", "k", "n", "0", "1", "_"}
\* [\w\.-]
IsEmailChar(c) == IsWord(c) \/ c \in {DOT, "-"}
\* [a-zA-Z]
IsLetter(c) == c \in {"a", "b", "k", "n"}

RECURSIVE Flatten(_)
Flatten(ss) == IF ss = <<>> THEN <<>> ELSE Head(ss) \o Flatten(Tail(ss))

\* The index of the first c in s at or after i, 0 when there is none
\* (str.find, one-based).
RECURSIVE Find(_, _, _)
Find(s, c, i) ==
    IF i > Len(s) THEN 0
    ELSE IF s[i] = c THEN i
    ELSE Find(s, c, i + 1)

(***************************************************************************)
(* json.dumps of a mapping                                                 *)
(***************************************************************************)
\* A JSON string's escapes: the quote, the backslash and the control
\* characters.
JsonEscapeChar(c) ==
    CASE c = QUOTE     -> <<BACKSLASH, QUOTE>>
      [] c = BACKSLASH -> <<BACKSLASH, BACKSLASH>>
      [] c = NEWLINE   -> <<BACKSLASH, "n">>
      [] OTHER         -> <<c>>

JsonString(chars) ==
    <<QUOTE>> \o Flatten([i \in 1..Len(chars) |-> JsonEscapeChar(chars[i])])
    \o <<QUOTE>>

JsonNull == <<"n", "u", "l", "l">>

\* A value of the flat mappings the model uses: a string or None.
JsonValue(v) == IF v.t = "str" THEN JsonString(v.s) ELSE JsonNull

\* The characters of a key: the field names of JiraIssue, and the one-
\* character keys of the other mappings.
KeyChars(k) ==
    CASE k = "id"          -> <<"i", "d">>
      [] k = "key"         -> <<"k", "e", "y">>
      [] k = "summary"     -> <<"s", "u", "m", "m", "a", "r", "y">>
      [] k = "description" -> <<"d", "e", "s", "c", "r", "i", "p", "t", "i", "o", "n">>
      [] k = "status"      -> <<"s", "t", "a", "t", "u", "s">>
      [] k = "priority"    -> <<"p", "r", "i", "o", "r", "i", "t", "y">>
      [] k = "created"     -> <<"c", "r", "e", "a", "t", "e", "d">>
      [] k = "assignee"    -> <<"a", "s", "s", "i", "g", "n", "e", "e">>
      [] k = "project"     -> <<"p", "r", "o", "j", "e", "c", "t">>
      [] OTHER             -> <<k>>

\* The items "key": value, joined by sep.
RECURSIVE JsonItems(_, _, _)
JsonItems(items, colon, sep) ==
    IF items = <<>> THEN <<>>
    ELSE JsonString(KeyChars(Head(items).k)) \o colon \o JsonValue(Head(items).v)
         \o (IF Len(items) > 1 THEN sep ELSE <<>>)
         \o JsonItems(Tail(items), colon, sep)

\* json.dumps(d) with its default separators ", " and ": ".
JsonDumps(d) ==
    <<"{">> \o JsonItems(d.items, <<":", SPACE>>, <<",", SPACE>>) \o <<"}">>

(***************************************************************************)
(* clean_text                                                              *)
(***************************************************************************)
\* BeautifulSoup(text, "html.parser").get_text(separator=" "): html.parser
\* takes "<" before a letter or a "/" as the start of a tag that runs to the
\* next ">", drops it, and the text on its two sides becomes two strings,
\* which get_text joins with the separator.  "</>" is skipped without
\* splitting the text.  A "<" before anything else is text, and so is
\* everything from a tag that is never closed to the end of the input.
\* GetTextFrom(s, i, cur, empty): cur is the string being collected, empty
\* tells that no string has been emitted yet.
RECURSIVE GetTextFrom(_, _, _, _)
GetTextFrom(s, i, cur, first) ==
    LET emit(str) == IF str = <<>> THEN <<>>
                     ELSE (IF first THEN <<>> ELSE <<SPACE>>) \o str
    IN  IF i > Len(s) THEN emit(cur)
        ELSE IF s[i] = LT /\ i < Len(s) /\ (IsLetter(s[i + 1]) \/ s[i + 1] = SLASH)
        THEN LET k == Find(s, GT, i + 1)
             IN  IF k = 0 THEN emit(cur \o SubSeq(s, i, Len(s)))
                 ELSE IF s[i + 1] = SLASH /\ k = i + 2
                 THEN GetTextFrom(s, i + 3, cur, first)
                 ELSE emit(cur)
                      \o GetTextFrom(s, k + 1, <<>>, first /\ cur = <<>>)
        ELSE GetTextFrom(s, i + 1, Append(cur, s[i]), first)

GetText(s) == GetTextFrom(s, 1, <<>>, TRUE)

\* re.sub(r"<[^<]+?>", "", text): the end of the match that starts at i, 0
\* when none does.  The lazy [^<]+? takes one character that is not "<" and
\* then stops at the first ">".
RECURSIVE TagEnd(_, _)
TagEnd(s, j) ==
    IF j > Len(s) \/ s[j] = LT THEN 0
    ELSE IF s[j] = GT THEN j
    ELSE TagEnd(s, j + 1)

TagMatchEnd(s, i) ==
    IF s[i] = LT /\ i + 1 <= Len(s) /\ s[i + 1] # LT
    THEN TagEnd(s, i + 2) ELSE 0

RECURSIVE StripTagsFrom(_, _)
StripTagsFrom(s, i) ==
    IF i > Len(s) THEN <<>>
    ELSE LET e == TagMatchEnd(s, i)
         IN  IF e > 0 THEN StripTagsFrom(s, e + 1)
             ELSE <<s[i]>> \o StripTagsFrom(s, i + 1)

StripTags(s) == StripTagsFrom(s, 1)

\* re.sub(r"\s+", " ", text)
RECURSIVE CollapseFrom(_, _)
CollapseFrom(s, i) ==
    IF i > Len(s) THEN <<>>
    ELSE IF IsSpace(s[i])
    THEN (IF i > 1 /\ IsSpace(s[i - 1]) THEN <<>> ELSE <<SPACE>>)
         \o CollapseFrom(s, i + 1)
    ELSE <<s[i]>> \o CollapseFrom(s, i + 1)

CollapseWhitespace(s) == CollapseFrom(s, 1)

\* str.strip()
RECURSIVE LStrip(_)
LStrip(s) == IF s # <<>> /\ IsSpace(Head(s)) THEN LStrip(Tail(s)) ELSE s

RECURSIVE RStrip(_)
RStrip(s) ==
    IF s # <<>> /\ IsSpace(s[Len(s)]) THEN RStrip(SubSeq(s, 1, Len(s) - 1))
    ELSE s

Strip(s) == LStrip(RStrip(s))

\* The end of the longest run of characters of a class that starts at i
\* (i - 1 when s[i] is not of the class).
RECURSIVE EmailRunEnd(_, _)
EmailRunEnd(s, i) ==
    IF i <= Len(s) /\ IsEmailChar(s[i]) THEN EmailRunEnd(s, i + 1) ELSE i - 1

RECURSIVE WordRunEnd(_, _)
WordRunEnd(s, i) ==
    IF i <= Len(s) /\ IsWord(s[i]) THEN WordRunEnd(s, i + 1) ELSE i - 1

\* [\w\.-]+\.\w+ from position lo, the run of [\w\.-] ending at hi: the
\* greedy [\w\.-]+ gives back characters until a "." with a \w behind it is
\* found, so the last such dot d (with lo < d) ends the domain.  The end of
\* the match, 0 when there is none.
RECURSIVE DomainEnd(_, _, _)
DomainEnd(s, lo, d) ==
    IF d <= lo THEN 0
    ELSE IF s[d] = DOT /\ d + 1 <= Len(s) /\ IsWord(s[d + 1])
    THEN WordRunEnd(s, d + 1)
    ELSE DomainEnd(s, lo, d - 1)

\* r"[\w\.-]+@[\w\.-]+\.\w+" matched at i: the end of the match, 0 when
\* there is none.
EmailMatchEnd(s, i) ==
    LET e1 == EmailRunEnd(s, i)
    IN  IF e1 < i \/ e1 + 1 > Len(s) \/ s[e1 + 1] # AT THEN 0
        ELSE LET lo == e1 + 2
                 hi == EmailRunEnd(s, lo)
             IN  IF hi < lo THEN 0 ELSE DomainEnd(s, lo, hi)

REDACTED == <<"[", "R", "E", "D", "A", "C", "T", "E", "D", "]">>

\* re.sub(r"[\w\.-]+@[\w\.-]+\.\w+", "[REDACTED]", text)
RECURSIVE RedactFrom(_, _)
RedactFrom(s, i) ==
    IF i > Len(s) THEN <<>>
    ELSE LET e == EmailMatchEnd(s, i)
         IN  IF e > 0 THEN REDACTED \o RedactFrom(s, e + 1)
             ELSE <<s[i]>> \o RedactFrom(s, i + 1)

RedactEmails(s) == RedactFrom(s, 1)

\* re.sub on a value that is not a string raises TypeError.
ReSubTags(text) ==
    IF text.t = "str" THEN Return(Str(StripTags(text.s)))
    ELSE Raise("TypeError")

\* The try block without its except clause: what BeautifulSoup raises
\* leaves clean_text.
MarkupStrippedOrRaised(text, parseFails) ==
    IF text.t = "str" /\ ~parseFails THEN Return(Str(GetText(text.s)))
    ELSE Raise("ParserRejectedMarkup")

\* The try/except of clean_text: BeautifulSoup either parses the text or
\* raises (parseFails, and always for a value that is not a string), and
\* then the regex strips the tags.
MarkupStripped(text, parseFails) ==
    IF text.t = "str" /\ ~parseFails THEN Return(Str(GetText(text.s)))
    ELSE ReSubTags(text)

\* text = json.dumps(text) without the return: the serialization is
\* cleaned like any other text.
clean_text_cleaning_mappings(text, parseFails) ==
    IF ~Truthy(text) THEN Return(Str(<<>>))
    ELSE LET stripped ==
                 MarkupStripped(IF text.t = "dict" THEN Str(JsonDumps(text)) ELSE text,
                                parseFails)
         IN  IF stripped.kind = "raise" THEN stripped
             ELSE Return(Str(RedactEmails(Strip(CollapseWhitespace(stripped.val.s)))))

clean_text(text, parseFails) ==
    IF ~Truthy(text) THEN Return(Str(<<>>))
    ELSE IF text.t = "dict" THEN Return(Str(JsonDumps(text)))
    ELSE LET stripped == MarkupStripped(text, parseFails)
         IN  IF stripped.kind = "raise" THEN stripped
             ELSE Return(Str(RedactEmails(Strip(CollapseWhitespace(stripped.val.s)))))

(***************************************************************************)
(* The inputs of clean_text                                                *)
(***************************************************************************)
TextPieces ==
    { <<LT>>, <<GT>>, <<SLASH>>, <<"a">>, <<SPACE>>, <<NEWLINE>>, <<AT>>, <<DOT>>,
      <<LT, "b", GT>>, <<"a", AT, "b", DOT, "n">> }

RECURSIVE TextsOf(_)
TextsOf(n) ==
    IF n = 0 THEN { <<>> }
    ELSE LET shorter == TextsOf(n - 1)
         IN  shorter \cup { p \o t : p \in TextPieces, t \in shorter }

Texts == TextsOf(MaxPieces)

\* The values a mapping's keys hold: None, plain text, text with an e-mail
\* address, markup and doubled whitespace, text that JSON escapes.
MappingValues ==
    { None, Str(<<>>), Str(<<"a">>),
      Str(<<LT, "b", GT, SPACE, SPACE, "a", AT, "b", DOT, "n">>),
      Str(<<QUOTE, BACKSLASH, NEWLINE>>) }

\* The mappings of at most two items (a description in Atlassian's document
\* format is such a mapping), the empty one included.
Mappings ==
    { Dict(<<>>) }
    \cup { Dict(<<Item(k, v)>>) : k \in {"k", "n"}, v \in MappingValues }
    \cup { Dict(<<Item(ks[1], v1), Item(ks[2], v2)>>) :
              ks \in { <<"k", "n">>, <<"n", "k">> },
              v1 \in MappingValues, v2 \in MappingValues }

\* What clean_text is given: nothing, a string, or a mapping.
CleanInputs == { None } \cup { Str(t) : t \in Texts } \cup Mappings

(***************************************************************************)
(* normalize_issues                                                        *)
(***************************************************************************)
\* The index of key k among the items, 0 when it is not a key.
RECURSIVE LookupFrom(_, _, _)
LookupFrom(items, k, i) ==
    IF i > Len(items) THEN 0
    ELSE IF items[i].k = k THEN i
    ELSE LookupFrom(items, k, i + 1)

\* obj.get(k, default); a value that is no mapping has no get.
Get(obj, k, default) ==
    IF obj.t # "dict" THEN Raise("AttributeError")
    ELSE LET i == LookupFrom(obj.items, k, 1)
         IN  Return(IF i = 0 THEN default ELSE obj.items[i].v)

\* r.get(k, default) on the outcome of an earlier step of the expression.
GetIn(r, k, default) == IF r.kind = "raise" THEN r ELSE Get(r.val, k, default)

\* The fields of JiraIssue, in the order of their declaration.
JiraIssueFields ==
    <<"id", "key", "summary", "description", "status", "priority", "created",
      "assignee", "project">>

\* JiraIssue(**kw): every field is Optional[str], so pydantic rejects a value
\* that is neither a string nor None.
JiraIssue(kw) ==
    IF \A f \in DOMAIN kw : kw[f].t \in {"none", "str"} THEN Return(kw)
    ELSE Raise("ValidationError")

\* fields.get(parent, {}).get(child) if fields.get(parent) else None
GetIfPresent(fields, parent, child) ==
    LET present == GetIn(fields, parent, None)
    IN  IF present.kind = "raise" THEN present
        ELSE IF Truthy(present.val)
        THEN GetIn(GetIn(fields, parent, Dict(<<>>)), child, None)
        ELSE Return(None)

\* The body of the loop of normalize_issues for one raw issue: the keyword
\* arguments are evaluated in order, the first that raises ends the call,
\* and then JiraIssue validates them.
NormalizeIssue(issue, parseFails) ==
    LET fields == Get(issue, "fields", Dict(<<>>))
        rawDescription == GetIn(fields, "description", None)
        args == <<
            Get(issue, "id", None),
            Get(issue, "key", None),
            GetIn(fields, "summary", None),
            IF rawDescription.kind = "raise" THEN rawDescription
            ELSE clean_text(rawDescription.val, parseFails),
            GetIn(GetIn(fields, "status", Dict(<<>>)), "name", None),
            GetIn(GetIn(fields, "priority", Dict(<<>>)), "name", None),
            GetIn(fields, "created", None),
            GetIfPresent(fields, "assignee", "displayName"),
            GetIfPresent(fields, "project", "name") >>
        raised == { i \in 1..Len(args) : args[i].kind = "raise" }
    IN  IF raised # {}
        THEN args[CHOOSE i \in raised : \A j \in raised : i <= j]
        ELSE JiraIssue([f \in { JiraIssueFields[i] : i \in 1..Len(args) } |->
                 args[CHOOSE i \in 1..Len(args) : JiraIssueFields[i] = f].val])

\* normalize_issues(issues): the issues in order, each appended to the
\* list; parseFails[i] tells whether BeautifulSoup raises on the i-th
\* description.  NormalizeFrom(issues, parseFails, i, normalized) is the
\* loop from the i-th issue on.
RECURSIVE NormalizeFrom(_, _, _, _)
NormalizeFrom(issues, parseFails, i, normalized) ==
    IF i > Len(issues) THEN Return(normalized)
    ELSE LET one == NormalizeIssue(issues[i], parseFails[i])
         IN  IF one.kind = "raise" THEN Raise(one.exc)
             ELSE NormalizeFrom(issues, parseFails, i + 1, Append(normalized, one.val))

normalize_issues(issues, parseFails) == NormalizeFrom(issues, parseFails, 1, <<>>)

(***************************************************************************)
(* save_to_jsonl                                                           *)
(***************************************************************************)
Filenames == { "jira_data.jsonl" }

NoFile == [exists |-> FALSE, content |-> <<>>]
File(content) == [exists |-> TRUE, content |-> content]

\* item.model_dump_json(): the fields in the order of their declaration, in
\* JSON without whitespace.
model_dump_json(item) ==
    <<"{">>
    \o JsonItems([i \in 1..Len(JiraIssueFields) |->
                     Item(JiraIssueFields[i], item[JiraIssueFields[i]])],
                 <<":">>, <<",">>)
    \o <<"}">>

\* open(filename, "a") instead: what the file holds is kept.
OpenForAppending(file) == File(file.content)

\* open(filename, "w"): the file is created, or emptied when it exists.
OpenForWriting(file) == File(<<>>)

\* f.write(line)
Write(file, chars) == File(file.content \o chars)

\* The loop of save_to_jsonl over the first n records.
RECURSIVE WriteRecords(_, _, _)
WriteRecords(file, data, n) ==
    IF n = 0 THEN file
    ELSE Write(WriteRecords(file, data, n - 1),
               model_dump_json(data[n]) \o <<NEWLINE>>)

\* save_to_jsonl(data, filename) on the file system files.  fault is the
\* environment's: "none", "open" (the target cannot be opened, nothing is
\* changed), or "write" (the write of record failAt + 1, when there is such
\* a record, raises, and the records before it are in the file).  The
\* outcome, the file system after the call, and the operations on files in
\* order.
save_to_jsonl(data, filename, files, fault, failAt) ==
    IF fault = "open"
    THEN [ret |-> Raise("OSError"), fs |-> files, io |-> <<>>]
    ELSE LET writeFails == fault = "write" /\ failAt < Len(data)
             n == IF writeFails THEN failAt ELSE Len(data)
             written == WriteRecords(OpenForWriting(files[filename]), data, n)
         IN  [ret |-> IF writeFails THEN Raise("OSError") ELSE Return(None),
              fs  |-> [files EXCEPT ![filename] = written],
              io  |-> <<[op |-> "open", file |-> filename]>>
                      \o [i \in 1..n |-> [op |-> "write", file |-> filename]]]

\* The records save_to_jsonl is given: one with every field set, among them
\* a summary with a quote, a backslash and a line break, and one with
\* every optional field None.
SaveIssues ==
    { [id |-> Str(<<"0">>), key |-> Str(<<"k", "-", "0">>),
       summary |-> Str(<<"a", QUOTE, BACKSLASH, NEWLINE, "n">>),
       description |-> Str(<<"a", SPACE, "[", "]">>),
       status |-> Str(<<"a">>), priority |-> Str(<<"b">>),
       created |-> Str(<<"0", "1">>), assignee |-> Str(<<"b", "a">>),
       project |-> Str(<<"k">>)],
      [id |-> None, key |-> None, summary |-> None, description |-> Str(<<>>),
       status |-> None, priority |-> None, created |-> None,
       assignee |-> None, project |-> None] }

\* What a target may hold before the first call: text that is no JSON and
\* does not end its last line.
StaleContent == <<"a", NEWLINE, "{", "b">>

(***************************************************************************)
(* The raw issues the external query returns                               *)
(***************************************************************************)
\* Marks, while an input is built, a key that the mapping does not have.
Missing == [t |-> "missing", s |-> <<>>, items |-> <<>>]

RECURSIVE PresentItems(_)
PresentItems(items) ==
    IF items = <<>> THEN <<>>
    ELSE (IF Head(items).v.t = "missing" THEN <<>> ELSE <<Head(items)>>)
         \o PresentItems(Tail(items))

MkDict(items) == Dict(PresentItems(items))

\* Markup, a run of whitespace and an e-mail address.
MarkupText == <<LT, "b", GT, "a", SPACE, SPACE, NEWLINE, "a", AT, "b", DOT, "n">>

\* The values of a complete issue, one per key of "fields".
BaseFieldValues ==
    [ summary     |-> Str(<<"a", QUOTE, NEWLINE>>),
      description |-> Str(MarkupText),
      status      |-> MkDict(<<Item("name", Str(<<"a">>))>>),
      priority    |-> MkDict(<<Item("name", Str(<<"b">>))>>),
      created     |-> Str(<<"0", "1">>),
      assignee    |-> MkDict(<<Item("displayName", Str(<<"b", "a">>))>>),
      project     |-> MkDict(<<Item("name", Str(<<"k">>))>>) ]

\* What each key of "fields" may hold instead: no such key, null, or
\* another value of its kind.
NameObjects(child) ==
    { Missing, None, Dict(<<>>), MkDict(<<Item(child, None)>>),
      MkDict(<<Item("id", Str(<<"1">>))>>) }

FieldVariants ==
    [ summary     |-> { Missing, None },
      description |-> { Missing, None, Str(<<>>), Str(<<"a">>),
                        MkDict(<<Item("k", Str(MarkupText))>>), Dict(<<>>) },
      status      |-> NameObjects("name"),
      priority    |-> NameObjects("name"),
      created     |-> { Missing, None },
      assignee    |-> NameObjects("displayName"),
      project     |-> NameObjects("name") ]

FieldKeys ==
    <<"summary", "description", "status", "priority", "created", "assignee",
      "project">>

FieldsOf(values) ==
    MkDict([i \in 1..Len(FieldKeys) |-> Item(FieldKeys[i], values[FieldKeys[i]])])

RawIssue(id, key, fields) ==
    MkDict(<<Item("id", id), Item("key", key), Item("fields", fields)>>)

\* The raw issues: the complete one, the ones that differ from it in one
\* key of "fields", the ones whose id, key or "fields" is absent or null.
RawIssues ==
    { RawIssue(Str(<<"0">>), Str(<<"k", "-", "0">>), FieldsOf(BaseFieldValues)),
      RawIssue(Str(<<"1">>), Str(<<"k", "-", "1">>), FieldsOf(BaseFieldValues)) }
    \cup UNION { { RawIssue(Str(<<"0">>), Str(<<"k", "-", "0">>),
                            FieldsOf([BaseFieldValues EXCEPT ![k] = v]))
                    : v \in FieldVariants[k] }
                  : k \in DOMAIN FieldVariants }
    \cup { RawIssue(id, id, fields) :
            id \in { Missing, None }, fields \in { Missing, None, Dict(<<>>) } }

\* An element of the list that is no mapping.
MalformedIssue == Str(<<"a">>)

RECURSIVE SeqsUpTo(_, _)
SeqsUpTo(S, n) ==
    IF n = 0 THEN { <<>> }
    ELSE LET shorter == SeqsUpTo(S, n - 1)
         IN  shorter \cup { Append(q, x) : q \in shorter, x \in S }

(***************************************************************************)
(* initialize_jira_client, fetch_jira_issues, fetch_jira_tokens            *)
(***************************************************************************)
\* JiraFetchRequest.limit when the request names none.
DefaultLimit == 50

\* initialize_jira_client(): with the three environment variables set the
\* global becomes a client, without one of them RuntimeError is raised and
\* the global is left as it is.
initialize_jira_client(client, envSet) ==
    IF envSet THEN [ret |-> Return(None), jira_client |-> "Jira"]
    ELSE [ret |-> Raise("Missing required Jira environment variables"),
          jira_client |-> client]

\* fetch_jira_issues(jql, limit): jql is what jira_client.jql does, the
\* environment's: it raises, or returns a mapping with or without "issues".
fetch_jira_issues(client, jql) ==
    IF client = "None" THEN Raise("Jira client not initialized")
    ELSE IF jql.kind = "raise" THEN jql
    ELSE Return(IF jql.val.has THEN jql.val.issues ELSE <<>>)

\* raise HTTPException(status_code=500, detail="Internal Server Error"):
\* the description of the fault is not passed on.
HTTPExceptionWithoutDetail(e) ==
    [kind |-> "HTTPException", status_code |-> 500, detail |-> "Internal Server Error"]

\* raise HTTPException(status_code=500, detail=str(e))
HTTPException(e) == [kind |-> "HTTPException", status_code |-> 500, detail |-> e]

\* JiraFetchResponse(count=request.limit, ...): the count asked for
\* instead of the count got.
JiraFetchResponseOfLimit(request, normalized) ==
    [kind |-> "JiraFetchResponse", count |-> request.limit,
     issues |-> normalized, success |-> TRUE]

\* JiraFetchResponse(count=len(normalized), issues=normalized, success=True)
JiraFetchResponse(request, normalized) ==
    [kind |-> "JiraFetchResponse", count |-> Len(normalized),
     issues |-> normalized, success |-> TRUE]

\* if request.save_to_file, wherever the try block has got to.
SavesRegardless(request, normalized) == request.save_to_file

\* Whether the try block reaches save_to_jsonl: normalize_issues has
\* returned and the request asks for the file.
Saves(request, normalized) ==
    normalized.kind = "return" /\ request.save_to_file

\* fetch_jira_tokens(request).  env is the environment's part: what
\* jira_client.jql does, on which descriptions BeautifulSoup raises, and
\* whether opening or writing the file fails.  The steps' outcomes (a step
\* that is not reached is NotCalled), the file system after the call, the
\* operations on files, and what the caller gets: the first step that
\* raises takes the call to the except clause.  The statements of the body
\* run one after the other, each on the values of the ones before it.
fetch_jira_tokens(request, client, files, env) ==
    CHOOSE outcome \in UNION { UNION { {
        [fetched |-> fetched, normalized |-> normalized, saved |-> saved.ret,
         fs |-> saved.fs, io |-> saved.io,
         response |->
            CASE fetched.kind = "raise"    -> HTTPException(fetched.exc)
              [] normalized.kind = "raise" -> HTTPException(normalized.exc)
              [] saved.ret.kind = "raise"  -> HTTPException(saved.ret.exc)
              [] OTHER                     -> JiraFetchResponse(request, normalized.val)]
        : saved \in { IF Saves(request, normalized)
                      THEN save_to_jsonl(IF normalized.kind = "return"
                                         THEN normalized.val ELSE <<>>,
                                         request.filename, files, env.fault, env.failAt)
                      ELSE [ret |-> NotCalled, fs |-> files, io |-> <<>>] } }
        : normalized \in { IF fetched.kind = "raise" THEN NotCalled
                           ELSE normalize_issues(fetched.val, env.parseFails) } }
        : fetched \in { fetch_jira_issues(client, env.jql) } } : TRUE

\* The issues a query finds: complete ones, one without "fields", one whose
\* status is null, one whose description is a mapping, and an element that
\* is no mapping.
QueryIssues ==
    { RawIssue(Str(<<"0">>), Str(<<"k", "-", "0">>), FieldsOf(BaseFieldValues)),
      RawIssue(Str(<<"1">>), Str(<<"k", "-", "1">>), FieldsOf(BaseFieldValues)),
      RawIssue(Str(<<"1">>), Str(<<"k", "-", "1">>), Missing),
      RawIssue(Str(<<"0">>), Str(<<"k", "-", "0">>),
               FieldsOf([BaseFieldValues EXCEPT !.status = None])),
      RawIssue(Str(<<"0">>), Str(<<"k", "-", "0">>),
               FieldsOf([BaseFieldValues EXCEPT
                            !.description = MkDict(<<Item("k", Str(MarkupText))>>)])),
      MalformedIssue }

Requests ==
    [jql_query : { "project = K" }, limit : { 1, DefaultLimit },
     save_to_file : BOOLEAN, filename : Filenames]

\* What jira_client.jql(jql, limit=limit) may do: raise, or return a
\* mapping with at most limit issues, or one without the key "issues".
JqlOutcomes(limit) ==
    { Raise("HTTPError"), Return([has |-> FALSE, issues |-> <<>>]) }
    \cup { Return([has |-> TRUE, issues |-> q]) :
            q \in { x \in SeqsUpTo(QueryIssues, MaxIssues) : Len(x) <= limit } }

NoCall ==
    [request |-> [jql_query |-> "", limit |-> 0, save_to_file |-> FALSE, filename |-> ""],
     fetched |-> NotCalled, normalized |-> NotCalled, saved |-> NotCalled,
     fsBefore |-> [f \in Filenames |-> NoFile]]

(***************************************************************************)
(* The parts of the state, and each part when its code is not running      *)
(***************************************************************************)
cleanVars == <<cleanArg, cleanRet>>
normVars == <<normArg, normRet>>
saveVars == <<saveArg, saveRet>>
fileVars == <<fs, ioLog>>
fetchVars == <<jira_client, startup, call, response>>
slackVars == <<pc, slackLog>>

CleanIdle == cleanArg = [text |-> None, parseFails |-> FALSE] /\ cleanRet = NotCalled
NormIdle == normArg = <<>> /\ normRet = NotCalled
SaveIdle ==
    saveArg = [data |-> <<>>, filename |-> "", before |-> NoFile] /\ saveRet = NotCalled
FilesIdle == fs = [f \in Filenames |-> NoFile] /\ ioLog = <<>>
FetchIdle ==
    jira_client = "None" /\ startup = NotCalled /\ call = NoCall /\ response = NotCalled
SlackIdle == pc = "not_started" /\ slackLog = <<>>

(***************************************************************************)
(* fetch_jira_tokens invoked once, after the lifespan or without it        *)
(***************************************************************************)
InitFetch ==
    /\ jira_client = "None"
    /\ startup = NotCalled
    /\ fs \in [Filenames -> { NoFile, File(StaleContent) }]
    /\ call = NoCall
    /\ response = NotCalled
    /\ ioLog = <<>>
    /\ CleanIdle /\ NormIdle /\ SaveIdle /\ SlackIdle

\* The lifespan of the application runs initialize_jira_client once, before
\* any request; whether the environment variables are set is the
\* environment's.
InitializeJiraClient ==
    /\ startup.kind = "not_called"
    /\ response.kind = "not_called"
    /\ \E envSet \in BOOLEAN :
          LET r == initialize_jira_client(jira_client, envSet)
          IN  /\ jira_client' = r.jira_client
              /\ startup' = r.ret
    /\ UNCHANGED <<call, response, fileVars, cleanVars, normVars, saveVars, slackVars>>

\* One invocation of fetch_jira_tokens, with or without the lifespan having
\* run before it.
FetchJiraTokens ==
    /\ response.kind = "not_called"
    /\ \E request \in Requests :
       \E jql \in JqlOutcomes(request.limit), fault \in { "none", "open", "write" } :
       \E parseFails \in [1..MaxIssues -> BOOLEAN],
          failAt \in (IF fault = "write" THEN 0..(MaxIssues - 1) ELSE {0}) :
       \E r \in { fetch_jira_tokens(request, jira_client, fs,
                       [jql |-> jql, parseFails |-> parseFails,
                        fault |-> fault, failAt |-> failAt]) } :
              /\ call' = [request |-> request, fetched |-> r.fetched,
                          normalized |-> r.normalized, saved |-> r.saved,
                          fsBefore |-> fs]
              /\ response' = r.response
              /\ fs' = r.fs
              /\ ioLog' = r.io
    /\ UNCHANGED <<jira_client, startup, cleanVars, normVars, saveVars, slackVars>>

NextFetch == InitializeJiraClient \/ FetchJiraTokens

SpecFetch == InitFetch /\ [][NextFetch]_vars

(***************************************************************************)
(* normalize_issues called on each list of raw issues                      *)
(***************************************************************************)
InitNormalize ==
    /\ normArg \in SeqsUpTo(RawIssues \cup { MalformedIssue }, MaxIssues)
    /\ normRet = NotCalled
    /\ CleanIdle /\ SaveIdle /\ FilesIdle /\ FetchIdle /\ SlackIdle

\* One call; on which descriptions BeautifulSoup raises is the
\* environment's choice.
NormalizeIssues ==
    /\ normRet.kind = "not_called"
    /\ \E parseFails \in [1..Len(normArg) -> BOOLEAN] :
          normRet' = normalize_issues(normArg, parseFails)
    /\ UNCHANGED <<normArg, cleanVars, saveVars, fileVars, fetchVars, slackVars>>

NextNormalize == NormalizeIssues

SpecNormalize == InitNormalize /\ [][NextNormalize]_vars

(***************************************************************************)
(* save_to_jsonl called again and again                                    *)
(***************************************************************************)
InitSave ==
    /\ fs \in [Filenames -> { NoFile, File(StaleContent) }]
    /\ ioLog = <<>>
    /\ SaveIdle
    /\ CleanIdle /\ NormIdle /\ FetchIdle /\ SlackIdle

\* One call, on any records; whether opening or writing fails is the
\* environment's choice.
SaveToJsonl ==
    \E data \in SeqsUpTo(SaveIssues, MaxRecords), filename \in Filenames,
       fault \in { "none", "open", "write" } :
      \E failAt \in (IF fault = "write" THEN 0..(MaxRecords - 1) ELSE {0}) :
        LET r == save_to_jsonl(data, filename, fs, fault, failAt)
        IN  /\ saveArg' = [data |-> data, filename |-> filename,
                           before |-> fs[filename]]
            /\ saveRet' = r.ret
            /\ fs' = r.fs
            /\ ioLog' = r.io
            /\ UNCHANGED <<cleanVars, normVars, fetchVars, slackVars>>

NextSave == SaveToJsonl

SpecSave == InitSave /\ [][NextSave]_vars

(***************************************************************************)
(* clean_text called on each of its inputs                                 *)
(***************************************************************************)
InitClean ==
    /\ cleanArg \in [text : CleanInputs, parseFails : BOOLEAN]
    /\ cleanRet = NotCalled
    /\ NormIdle /\ SaveIdle /\ FilesIdle /\ FetchIdle /\ SlackIdle

\* One call.
CleanText ==
    /\ cleanRet.kind = "not_called"
    /\ cleanRet' = clean_text(cleanArg.text, cleanArg.parseFails)
    /\ UNCHANGED <<cleanArg, normVars, saveVars, fileVars, fetchVars, slackVars>>

NextClean == CleanText

SpecClean == InitClean /\ [][NextClean]_vars

(***************************************************************************)
(* The Slack assistant: list_channels, then the loop of requests           *)
(***************************************************************************)
\* What slack_client.conversations_join may do: return, raise SlackApiError
\* with the error of the response, or raise another exception.
JoinOutcomes ==
    { [kind |-> "return", exc |-> "", error |-> ""],
      [kind |-> "raise", exc |-> "SlackApiError", error |-> "already_in_channel"],
      [kind |-> "raise", exc |-> "SlackApiError", error |-> "channel_not_found"],
      [kind |-> "raise", exc |-> "SlackApiError", error |-> "is_archived"],
      [kind |-> "raise", exc |-> "URLError", error |-> ""] }

\* except SlackApiError, with nothing raised from it.
CatchesEverySlackError(join) == join.exc = "SlackApiError"

\* The except clause of ask_question ends without raising: the exception is
\* a SlackApiError and the error of its response is already_in_channel.
Swallows(join) == join.exc = "SlackApiError" /\ join.error = "already_in_channel"

\* ask_question(data), the n-th request.  join and agent are the
\* environment's: what conversations_join does, and whether
\* agent.print_response raises.  The calls made, in order, and how the
\* request ends.
ask_question(n, data, join, agentRaises) ==
    LET joined == <<[ev |-> "conversations_join", request |-> n,
                     channel |-> data.channel_id, query |-> "", outcome |-> join]>>
        asked == <<[ev |-> "ask_agent", request |-> n,
                    channel |-> data.channel_id, query |-> data.query,
                    outcome |-> [kind |-> "called", exc |-> "", error |-> ""]]>>
    IN  IF join.kind = "raise" /\ ~Swallows(join)
        THEN [calls |-> joined,
              result |-> IF join.exc = "SlackApiError"
                         THEN [kind |-> "HTTPException", status_code |-> 400,
                               detail |-> <<"Slack error: ", join.error>>]
                         ELSE [kind |-> join.exc, status_code |-> 0, detail |-> <<>>]]
        ELSE [calls |-> joined \o asked,
              result |-> IF agentRaises
                         THEN [kind |-> "AgentError", status_code |-> 0, detail |-> <<>>]
                         ELSE [kind |-> "returned", status_code |-> 0, detail |-> <<>>]]

\* What the user types at the first prompt, and at the second.
ChannelInputs == { "C0", "C1", "exit", "EXIT" }
QueryInputs == { "q0", "q1" }

\* channel_id.lower() == 'exit'
IsExit(channel_id) == channel_id \in { "exit", "EXIT" }

\* The requests handled so far.
Handled == Cardinality({ i \in 1..Len(slackLog) : slackLog[i].ev = "end" })

InitSlack ==
    /\ pc = "not_started"
    /\ slackLog = <<>>
    /\ CleanIdle /\ NormIdle /\ SaveIdle /\ FilesIdle /\ FetchIdle

\* list_channels() at the start of the program: when the call to Slack
\* raises, the program ends before the loop.
ListChannels ==
    /\ pc = "not_started"
    /\ \E raises \in BOOLEAN : pc' = IF raises THEN "crashed" ELSE "prompt"
    /\ UNCHANGED <<slackLog, cleanVars, normVars, saveVars, fileVars, fetchVars>>

\* The user types exit at the prompt: break.
Exit ==
    /\ pc = "prompt"
    /\ \E channel_id \in ChannelInputs : IsExit(channel_id)
    /\ pc' = "exited"
    /\ UNCHANGED <<slackLog, cleanVars, normVars, saveVars, fileVars, fetchVars>>

\* One turn of the loop: a channel and a question are read and ask_question
\* is called; what it raises is caught nowhere and ends the program.
AskQuestion ==
    /\ pc = "prompt"
    /\ Handled < MaxRequests
    /\ \E channel_id \in ChannelInputs, query \in QueryInputs,
          join \in JoinOutcomes, agentRaises \in BOOLEAN :
          /\ ~IsExit(channel_id)
          /\ LET r == ask_question(Handled + 1,
                                   [channel_id |-> channel_id, query |-> query],
                                   join, agentRaises)
             IN  /\ slackLog' = slackLog \o r.calls
                        \o <<[ev |-> "end", request |-> Handled + 1,
                              channel |-> channel_id, query |-> query,
                              outcome |-> r.result]>>
                 /\ pc' = IF r.result.kind = "returned" THEN "prompt" ELSE "crashed"
    /\ UNCHANGED <<cleanVars, normVars, saveVars, fileVars, fetchVars>>

NextSlack == ListChannels \/ Exit \/ AskQuestion

SpecSlack == InitSlack /\ [][NextSlack]_vars

(***************************************************************************)
(* Reading a target back: its lines, and each line parsed as JSON          *)
(***************************************************************************)
\* The newline-terminated lines of a text, and what follows the last
\* newline.
SplitLines(s) ==
    LET ends == { i \in 1..Len(s) : s[i] = NEWLINE }
        \* the position of the k-th newline, 0 for k = 0
        end(k) == IF k = 0 THEN 0
                  ELSE CHOOSE i \in ends : Cardinality({ j \in ends : j <= i }) = k
        n == Cardinality(ends)
    IN  [lines |-> [k \in 1..n |-> SubSeq(s, end(k - 1) + 1, end(k) - 1)],
         rest  |-> SubSeq(s, end(n) + 1, Len(s))]

ParseFailed == [ok |-> FALSE, val |-> None, next |-> 0]

\* A JSON string whose opening quote is before position j: its characters
\* up to the closing quote, escapes decoded.  A raw line break, an unknown
\* escape or a missing closing quote is an error.
RECURSIVE ScanString(_, _, _)
ScanString(s, j, acc) ==
    IF j > Len(s) \/ s[j] = NEWLINE THEN ParseFailed
    ELSE IF s[j] = QUOTE THEN [ok |-> TRUE, val |-> Str(acc), next |-> j + 1]
    ELSE IF s[j] = BACKSLASH
    THEN IF j + 1 > Len(s) \/ s[j + 1] \notin { QUOTE, BACKSLASH, "n" }
         THEN ParseFailed
         ELSE ScanString(s, j + 2,
                         Append(acc, IF s[j + 1] = "n" THEN NEWLINE ELSE s[j + 1]))
    ELSE ScanString(s, j + 1, Append(acc, s[j]))

\* A JSON value at position i: a string or null.
ParseValue(s, i) ==
    IF i > Len(s) THEN ParseFailed
    ELSE IF s[i] = QUOTE THEN ScanString(s, i + 1, <<>>)
    ELSE IF i + 3 <= Len(s) /\ SubSeq(s, i, i + 3) = JsonNull
    THEN [ok |-> TRUE, val |-> None, next |-> i + 4]
    ELSE ParseFailed

\* The members of a JSON object from position i on, to the closing brace,
\* which must end the text: pairs of the key's characters and the value.
RECURSIVE ParseMembers(_, _, _)
ParseMembers(s, i, members) ==
    IF i > Len(s) \/ s[i] # QUOTE THEN [ok |-> FALSE, members |-> <<>>]
    ELSE LET k == ScanString(s, i + 1, <<>>)
         IN  IF ~k.ok \/ k.next > Len(s) \/ s[k.next] # ":"
             THEN [ok |-> FALSE, members |-> <<>>]
             ELSE LET v == ParseValue(s, k.next + 1)
                      got == Append(members, [k |-> k.val.s, v |-> v.val])
                  IN  IF ~v.ok \/ v.next > Len(s) THEN [ok |-> FALSE, members |-> <<>>]
                      ELSE IF s[v.next] = "}"
                      THEN [ok |-> v.next = Len(s), members |-> got]
                      ELSE IF s[v.next] = ","
                      THEN ParseMembers(s, v.next + 1, got)
                      ELSE [ok |-> FALSE, members |-> <<>>]

ParseJsonObject(s) ==
    IF Len(s) < 2 \/ s[1] # "{" THEN [ok |-> FALSE, members |-> <<>>]
    ELSE IF s = <<"{", "}">> THEN [ok |-> TRUE, members |-> <<>>]
    ELSE ParseMembers(s, 2, <<>>)

\* The line parses into the nine fields of the record, each with the
\* record's value.
ParsesBackTo(line, item) ==
    LET parsed == ParseJsonObject(line)
    IN  /\ parsed.ok
        /\ parsed.members =
             [i \in 1..Len(JiraIssueFields) |->
                [k |-> KeyChars(JiraIssueFields[i]), v |-> item[JiraIssueFields[i]]]]

\* The text holds exactly the records, one newline-terminated line each, in
\* order.
HoldsExactly(content, data) ==
    LET read == SplitLines(content)
    IN  /\ read.rest = <<>>
        /\ Len(read.lines) = Len(data)
        /\ \A i \in 1..Len(data) : ParsesBackTo(read.lines[i], data[i])

(***************************************************************************)
(* Claims about fetch_jira_tokens                                          *)
(***************************************************************************)
\* C1: whenever the query step raises (the client that was never
\* initialized included), the invocation ends in the failure result and
\* the persistence target is neither opened nor written, also with
\* save_to_file true.
QueryFaultWritesNothing ==
    call.fetched.kind = "raise" =>
        /\ response.kind = "HTTPException"
        /\ ioLog = <<>>
        /\ fs = call.fsBefore

\* C1's case: the external query raised in a request that asks for the
\* file, whose target holds text.
QueryFaultWitness ==
    /\ call.fetched.kind = "raise"
    /\ call.fetched.exc = "HTTPError"
    /\ call.request.save_to_file
    /\ fs[call.request.filename].exists

StepsOfCall == <<call.fetched, call.normalized, call.saved>>

\* C2: an invocation ends either in a JiraFetchResponse with success true
\* or in the one failure that carries the description of the fault; a fault
\* in the query, the normalization or the persistence gives the failure,
\* and then the caller gets no count and no issues.
FetchEndsInResponseOrFailure ==
    response.kind # "not_called" =>
        LET raised == { i \in 1..3 : StepsOfCall[i].kind = "raise" }
        IN  /\ response.kind \in { "JiraFetchResponse", "HTTPException" }
            /\ response.kind = "JiraFetchResponse" =>
                    raised = {} /\ response.success = TRUE
            /\ raised # {} =>
                    /\ response.kind = "HTTPException"
                    /\ DOMAIN response = { "kind", "status_code", "detail" }
                    /\ \A i \in raised : response.detail = StepsOfCall[i].exc

\* C2's case: the write failed after the issues had been normalized.
FetchFailureWitness ==
    /\ call.normalized.kind = "return"
    /\ Len(call.normalized.val) >= 1
    /\ call.saved.kind = "raise"
    /\ response.kind = "HTTPException"

\* C3: every JiraFetchResponse returned has count = len(issues), count >= 0
\* and success true.
ResponseCountsItsIssues ==
    response.kind = "JiraFetchResponse" =>
        /\ response.count = Len(response.issues)
        /\ response.count >= 0
        /\ response.success = TRUE

\* C3's case: a response with two issues, the file asked for and written.
ResponseCountWitness ==
    /\ response.kind = "JiraFetchResponse"
    /\ response.count = 2
    /\ call.request.save_to_file
    /\ call.saved.kind = "return"

(***************************************************************************)
(* Claims about normalize_issues                                           *)
(***************************************************************************)
\* What a raw value holds under a key: None when the value is no mapping or
\* has no such key.
Field(obj, k) ==
    IF obj.t # "dict" THEN None
    ELSE LET i == LookupFrom(obj.items, k, 1)
         IN  IF i = 0 THEN None ELSE obj.items[i].v

Nested(raw, parent, child) == Field(Field(Field(raw, "fields"), parent), child)

\* Every element of the list is a mapping.
WellFormed(issues) == \A i \in 1..Len(issues) : issues[i].t = "dict"

\* C4: for a list of n well-formed raw issues normalize_issues returns n
\* records, the i-th built from the i-th raw issue.
NormalizeIsOneToOne ==
    (normRet.kind # "not_called" /\ WellFormed(normArg)) =>
        /\ normRet.kind = "return"
        /\ Len(normRet.val) = Len(normArg)
        /\ \A i \in 1..Len(normArg) :
              /\ normRet.val[i].id = Field(normArg[i], "id")
              /\ normRet.val[i].key = Field(normArg[i], "key")

\* C5: for raw issues that are mappings normalize_issues does not fault
\* whichever of fields, summary, description, status, priority, created,
\* assignee and project are missing or null; status, priority and project
\* are the nested name, assignee the nested displayName, when the parent
\* object is there, and None otherwise.
NormalizeToleratesAbsentFields ==
    (normRet.kind # "not_called" /\ WellFormed(normArg)) =>
        /\ normRet.kind = "return"
        /\ \A i \in 1..Len(normArg) :
              /\ normRet.val[i].status = Nested(normArg[i], "status", "name")
              /\ normRet.val[i].priority = Nested(normArg[i], "priority", "name")
              /\ normRet.val[i].assignee = Nested(normArg[i], "assignee", "displayName")
              /\ normRet.val[i].project = Nested(normArg[i], "project", "name")

\* A tag as html.parser sees one: "<", a letter or "/", and a ">" after.
ContainsTag(s) ==
    \E i \in 1..Len(s) :
        /\ s[i] = LT
        /\ i < Len(s)
        /\ IsLetter(s[i + 1]) \/ s[i + 1] = SLASH
        /\ Find(s, GT, i + 1) # 0

ContainsWhitespaceRun(s) ==
    \E i \in 1..(Len(s) - 1) : IsSpace(s[i]) /\ IsSpace(s[i + 1])

ContainsEmail(s) == \E i \in 1..Len(s) : EmailMatchEnd(s, i) > 0

\* C6: the description of every record normalize_issues produces holds no
\* markup tag, no run of whitespace and no e-mail address, whatever the raw
\* description was: absent, a string, or a mapping.
DescriptionsAreSanitized ==
    normRet.kind = "return" =>
        \A i \in 1..Len(normRet.val) :
            /\ normRet.val[i].description.t = "str"
            /\ ~ContainsTag(normRet.val[i].description.s)
            /\ ~ContainsWhitespaceRun(normRet.val[i].description.s)
            /\ ~ContainsEmail(normRet.val[i].description.s)

(***************************************************************************)
(* Claims about clean_text                                                 *)
(***************************************************************************)
\* C7: clean_text raises on no input (None, a string, a mapping) and
\* returns a string; for None the empty string; and when BeautifulSoup
\* raises on a string, the string with the regex's tags stripped, cleaned.
CleanTextNeverRaises ==
    cleanRet.kind # "not_called" =>
        /\ cleanRet.kind = "return"
        /\ cleanRet.val.t = "str"
        /\ cleanArg.text = None => cleanRet.val.s = <<>>
        /\ (cleanArg.text.t = "str" /\ cleanArg.text.s # <<>> /\ cleanArg.parseFails) =>
                cleanRet.val.s =
                    RedactEmails(Strip(CollapseWhitespace(StripTags(cleanArg.text.s))))

\* C7's case: BeautifulSoup raised on a string with a tag, and clean_text
\* returned the text without it.
CleanTextFallbackWitness ==
    /\ cleanRet.kind = "return"
    /\ cleanArg.parseFails
    /\ cleanArg.text = Str(<<"a", LT, "b", GT, "a">>)
    /\ cleanRet.val = Str(<<"a", "a">>)

\* C8 as stated: for every mapping, the empty one included, clean_text
\* returns its json.dumps serialization.
CleanTextSerializesEveryMapping ==
    (cleanRet.kind # "not_called" /\ cleanArg.text.t = "dict") =>
        cleanRet = Return(Str(JsonDumps(cleanArg.text)))

\* C8 as amended: for every mapping that is not empty clean_text returns
\* its json.dumps serialization, as it is; for the empty mapping it returns
\* the empty string.
CleanTextSerializesNonEmptyMapping ==
    (cleanRet.kind # "not_called" /\ cleanArg.text.t = "dict") =>
        cleanRet = Return(Str(IF cleanArg.text.items = <<>> THEN <<>>
                              ELSE JsonDumps(cleanArg.text)))

\* C8's case: a mapping of two items, one holding markup and an e-mail
\* address, returned as {"k": "...", "n": null}.
CleanTextMappingWitness ==
    /\ cleanRet.kind = "return"
    /\ cleanArg.text.t = "dict"
    /\ Len(cleanArg.text.items) = 2
    /\ cleanArg.text.items[1].v.t = "str"
    /\ ContainsEmail(cleanArg.text.items[1].v.s)
    /\ ContainsEmail(cleanRet.val.s)
    /\ cleanRet.val.s[1] = "{"

(***************************************************************************)
(* Claims about save_to_jsonl                                              *)
(***************************************************************************)
\* C9: after save_to_jsonl(data, filename) has completed without a fault,
\* the target holds exactly len(data) newline-terminated lines, line i
\* parsing back into the nine fields of record i, and nothing of what the
\* target held before, whatever that was and however many writes came
\* before.
SaveOverwritesWithOneLinePerRecord ==
    saveRet.kind = "return" =>
        /\ fs[saveArg.filename].exists
        /\ HoldsExactly(fs[saveArg.filename].content, saveArg.data)

\* C9's case: a completed write of two records, the first with a line
\* break, a quote and a backslash in its summary, to a target that held
\* text before.
SaveOverwritesWitness ==
    /\ saveRet.kind = "return"
    /\ Len(saveArg.data) = 2
    /\ saveArg.data[1].summary.t = "str"
    /\ \E i \in 1..Len(saveArg.data[1].summary.s) :
          saveArg.data[1].summary.s[i] = NEWLINE
    /\ saveArg.before.exists
    /\ Len(saveArg.before.content) > 0

(***************************************************************************)
(* The Slack assistant                                                     *)
(***************************************************************************)
\* The join attempt returned, or failed with the Slack error
\* already_in_channel.
JoinAdmits(outcome) ==
    \/ outcome.kind = "return"
    \/ outcome.kind = "raise" /\ outcome.exc = "SlackApiError"
          /\ outcome.error = "already_in_channel"

\* The events of the n-th request, as positions of the log.
EventsOf(n) == { i \in 1..Len(slackLog) : slackLog[i].request = n }

\* C10: for every request handled by ask_question the agent is invoked only
\* after the join attempt of that request, for its channel and its question,
\* and exactly when the attempt succeeded or failed with the Slack error
\* already_in_channel; when the join fails with any other Slack error the
\* request ends in an error (HTTPException 400) and the agent is not invoked
\* for it.
AgentInvokedExactlyAfterAdmittedJoin ==
    \A n \in 1..MaxRequests :
      LET joins == { i \in EventsOf(n) : slackLog[i].ev = "conversations_join" }
          asks == { i \in EventsOf(n) : slackLog[i].ev = "ask_agent" }
          ends == { i \in EventsOf(n) : slackLog[i].ev = "end" }
      IN  EventsOf(n) # {} =>
            /\ Cardinality(joins) = 1 /\ Cardinality(ends) = 1
            /\ Cardinality(asks) <= 1
            /\ \A j \in joins :
                 /\ (asks # {}) <=> JoinAdmits(slackLog[j].outcome)
                 /\ \A a \in asks :
                      /\ a = j + 1
                      /\ slackLog[a].channel = slackLog[j].channel
                      /\ \A e \in ends : slackLog[a].query = slackLog[e].query
                 /\ (slackLog[j].outcome.exc = "SlackApiError"
                       /\ ~JoinAdmits(slackLog[j].outcome)) =>
                      \A e \in ends :
                        /\ e = j + 1
                        /\ slackLog[e].outcome.kind = "HTTPException"
                        /\ slackLog[e].outcome.status_code = 400

\* A run in which one request found the bot already in the channel and the
\* agent was invoked for it, and a later request's join failed with another
\* Slack error.
AgentAfterJoinWitness ==
    \E j1, j2 \in 1..Len(slackLog) :
      /\ slackLog[j1].ev = "conversations_join"
      /\ slackLog[j1].outcome.exc = "SlackApiError"
      /\ slackLog[j1].outcome.error = "already_in_channel"
      /\ slackLog[j1 + 1].ev = "ask_agent"
      /\ slackLog[j2].ev = "conversations_join"
      /\ slackLog[j2].outcome.exc = "SlackApiError"
      /\ slackLog[j2].outcome.error = "channel_not_found"
      /\ pc = "crashed"

====
